---- MODULE Spec2Model ----
(***************************************************************************)
(* Model of django_api_tester: the endpoint discovery of routers.py        *)
(* (APIRouters, Router, RouterURLPattern), the accessor of testcase.py     *)
(* that resolves a view's serializer, the BaseValidator of                 *)
(* validator.py, and the protected listing and record creation helpers of  *)
(* APITestCase.                                                            *)
(*                                                                         *)
(* Python strings are sequences of one-character strings, so that          *)
(* startswith, slicing, formatting and ordering are computed.  An optional *)
(* value is <<>> for None and <<v>> for the value v.                       *)
(***************************************************************************)
EXTENDS Integers, Sequences, FiniteSets, TLC

\* ------------------------------------------------------------------------
\* Bounds
\* ------------------------------------------------------------------------
\* entries of the root urlpatterns when discovery is explored
MaxRoot == 3
\* entries of the root urlpatterns when the lazy accessors are explored
MaxLazyRoot == 1
\* instantiations of view classes
MaxInstances == 8
\* length of a regex pattern string
MaxLen == 3
\* rows of a queryset and results of a response
MaxRecords == 2

\* ------------------------------------------------------------------------
\* Python values
\* ------------------------------------------------------------------------
None == <<>>
Some(v) == <<v>>
Val(x) == x[1]

\* bool(x) of an optional string: None and '' are false
Truthy(x) == x # None /\ Val(x) # <<>>

S_None == <<"N","o","n","e">>

\* '{}'.format(x) of an optional string
Format(x) == IF x = None THEN S_None ELSE Val(x)

\* the printable ASCII characters in code point order, from 32 (the quote,
\* the backslash and the grave accent are named)
AsciiTable == <<" ","!","(quote)","#","$","%","&","'","(",")","*","+",",","-",".","/","0","1","2","3","4","5","6","7","8","9",":",";","<","=",">","?","@","A","B","C","D","E","F","G","H","I","J","K","L","M","N","O","P","Q","R","S","T","U","V","W","X","Y","Z","[","(backslash)","]","^","_","(grave)","a","b","c","d","e","f","g","h","i","j","k","l","m","n","o","p","q","r","s","t","u","v","w","x","y","z","{","|","}","~">>

\* ord(c)
Ord(c) == 31 + (CHOOSE i \in 1..Len(AsciiTable) : AsciiTable[i] = c)

\* a < b of two str: lexicographic by code point, a proper prefix is smaller
RECURSIVE StrLt(_, _)
StrLt(a, b) ==
    IF b = <<>> THEN FALSE
    ELSE IF a = <<>> THEN TRUE
    ELSE IF Head(a) # Head(b) THEN Ord(Head(a)) < Ord(Head(b))
    ELSE StrLt(Tail(a), Tail(b))

\* value.startswith('^')
StartsWithCaret(value) == Len(value) > 0 /\ value[1] = "^"

\* variant: every leading '^' is removed (value.lstrip('^'))
RECURSIVE StripCarets(_)
StripCarets(value) == IF StartsWithCaret(value) THEN StripCarets(Tail(value)) ELSE value

\* the strip of prefix and suffix: if value.startswith('^'): value = value[1:]
StripCaret(value) == IF StartsWithCaret(value) THEN Tail(value) ELSE value

\* ------------------------------------------------------------------------
\* String literals
\* ------------------------------------------------------------------------
S_admin == <<"a","d","m","i","n">>
S_rest_framework == <<"r","e","s","t","_","f","r","a","m","e","w","o","r","k">>
S_example == <<"e","x","a","m","p","l","e">>
S_demo == <<"d","e","m","o">>
S_api == <<"a","p","i">>
S_v1 == <<"v","1">>
S_inner == <<"i","n","n","e","r">>
S_example_list == <<"e","x","a","m","p","l","e","-","l","i","s","t">>
S_api_root == <<"a","p","i","-","r","o","o","t">>
S_index == <<"i","n","d","e","x">>
S_health == <<"h","e","a","l","t","h">>
S_status == <<"s","t","a","t","u","s">>
S_ping == <<"p","i","n","g">>
S_bare == <<"b","a","r","e">>
S_inner_list == <<"i","n","n","e","r","-","l","i","s","t">>
S_missing == <<"m","i","s","s","i","n","g">>
R_example == <<"^","e","x","a","m","p","l","e","/">>
R_admin == <<"^","a","d","m","i","n","/">>
R_api == <<"^","a","p","i","/">>
R_demo == <<"d","e","m","o","/">>
R_inner == <<"^","i","n","n","e","r","/">>
R_list == <<"^","s","i","m","p","l","e","-","e","x","a","m","p","l","e","s","$">>
R_root == <<"^","$">>
R_health == <<"^","h","e","a","l","t","h","$">>
R_status == <<"s","t","a","t","u","s","$">>
R_ping == <<"^","p","i","n","g","$">>

\* ------------------------------------------------------------------------
\* View classes: what Router.__init__, RouterURLPattern.queryset and
\* get_serializer_for_url_pattern ask of item.callback.cls
\* ------------------------------------------------------------------------
\* ModelViewSet with a queryset and get_serializer_class (views.py)
ExampleViewSet ==
    [isView |-> TRUE, isGenericViewSet |-> TRUE, get_queryset |-> TRUE,
     queryset |-> Some("Example.objects.all()"), get_serializer_class |-> TRUE]

\* routers.APIRootView: an APIView, no queryset of any kind
APIRootView ==
    [isView |-> TRUE, isGenericViewSet |-> FALSE, get_queryset |-> FALSE,
     queryset |-> None, get_serializer_class |-> FALSE]

\* an APIView that sets the class attribute queryset only
LegacyView ==
    [isView |-> TRUE, isGenericViewSet |-> FALSE, get_queryset |-> FALSE,
     queryset |-> Some("Legacy.objects.all()"), get_serializer_class |-> TRUE]

Classes ==
    [ExampleViewSet |-> ExampleViewSet, APIRootView |-> APIRootView, LegacyView |-> LegacyView]

\* item.callback is None (a URLResolver), a function view, or a class based
\* view function carrying the attribute cls
CallbackNone == "None"
CallbackFunction == "function"

\* hasattr(item.callback, 'cls')
HasCls(callback) == callback \in DOMAIN Classes

\* ------------------------------------------------------------------------
\* URL configuration entries
\* ------------------------------------------------------------------------
URLPattern(pattern, name, callback) ==
    [kind |-> "URLPattern", pattern |-> pattern, name |-> name, callback |-> callback,
     app_name |-> None, namespace |-> None, url_patterns |-> <<>>]

URLResolver(pattern, app_name, namespace, url_patterns) ==
    [kind |-> "URLResolver", pattern |-> pattern, name |-> None, callback |-> CallbackNone,
     app_name |-> app_name, namespace |-> namespace, url_patterns |-> url_patterns]

\* path('example/', include('apps.example.urls', namespace='example'))
ExampleURLs ==
    URLResolver(R_example, Some(S_example), Some(S_example),
        << URLPattern(R_list, Some(S_example_list), "ExampleViewSet"),
           URLPattern(R_root, Some(S_api_root), "APIRootView") >>)

\* path('admin/', admin.site.urls)
AdminURLs ==
    URLResolver(R_admin, Some(S_admin), Some(S_admin),
        << URLPattern(R_root, Some(S_index), CallbackFunction) >>)

\* the browsable API login views
RestFrameworkURLs ==
    URLResolver(R_api, Some(S_rest_framework), Some(S_rest_framework),
        << URLPattern(R_status, Some(S_status), "APIRootView") >>)

\* an include() of a module without app_name
NoAppURLs ==
    URLResolver(R_inner, None, None,
        << URLPattern(R_list, Some(S_inner_list), "ExampleViewSet") >>)

\* a class based view routed directly in the root configuration
HealthURL == URLPattern(R_health, Some(S_health), "APIRootView")

\* a second application instance in the namespace 'example', regex without '^'
DemoURLs ==
    URLResolver(R_demo, Some(S_demo), Some(S_example),
        << URLPattern(R_status, Some(S_example_list), "LegacyView"),
           URLPattern(R_ping, Some(S_ping), CallbackFunction) >>)

\* an application that includes a further resolver
ApiURLs ==
    URLResolver(R_api, Some(S_api), Some(S_v1),
        << URLResolver(R_inner, Some(S_inner), Some(S_inner),
               << URLPattern(R_list, Some(S_inner_list), "ExampleViewSet") >>),
           URLPattern(R_status, None, "APIRootView"),
           URLPattern(R_ping, Some(S_bare), "LegacyView") >>)

RootEntries ==
    {ExampleURLs, AdminURLs, RestFrameworkURLs, NoAppURLs, HealthURL, DemoURLs, ApiURLs}

RECURSIVE SeqsUpTo(_, _)
SeqsUpTo(S, n) ==
    IF n = 0 THEN {<<>>}
    ELSE LET shorter == SeqsUpTo(S, n - 1)
         IN shorter \cup {Append(s, x) : s \in shorter, x \in S}

\* ------------------------------------------------------------------------
\* routers.py
\* ------------------------------------------------------------------------
\* variant: 'admin' is not ignored
IgnoreWithoutAdmin == {None, Some(S_rest_framework)}

IGNORE_ROUTER_NAMES == {None, Some(S_admin), Some(S_rest_framework)}

RouterURLPattern(router, item) == [router |-> [router |-> router], item |-> item]

\* variant: only view sets are linked
RECURSIVE RouterItemsViewSets(_, _)
RouterItemsViewSets(router, items) ==
    IF items = <<>> THEN <<>>
    ELSE LET item == Head(items)
         IN (IF HasCls(item.callback) /\ Classes[item.callback].isGenericViewSet
             THEN <<RouterURLPattern(router, item)>> ELSE <<>>)
            \o RouterItemsViewSets(router, Tail(items))

\* the loop of Router.__init__: one wrapper when the view is a views.View and
\* one more when it is a viewsets.GenericViewSet
RECURSIVE RouterItems(_, _)
RouterItems(router, items) ==
    IF items = <<>> THEN <<>>
    ELSE LET item == Head(items)
             asView == IF HasCls(item.callback) /\ Classes[item.callback].isView
                       THEN <<RouterURLPattern(router, item)>> ELSE <<>>
             asViewSet == IF HasCls(item.callback) /\ Classes[item.callback].isGenericViewSet
                          THEN <<RouterURLPattern(router, item)>> ELSE <<>>
         IN asView \o asViewSet \o RouterItems(router, Tail(items))

Router(router) == [router |-> router, url_patterns |-> RouterItems(router, router.url_patterns)]

\* variant: the queryset is fetched while the router is built
RECURSIVE RouterCallsEager(_)
RouterCallsEager(items) ==
    IF items = <<>> THEN <<>>
    ELSE (IF HasCls(Head(items).callback) THEN <<"cls", "cls", "get_queryset">> ELSE <<>>)
         \o RouterCallsEager(Tail(items))

\* the view methods Router.__init__ invokes for one item: item.callback.cls()
\* in each of the two isinstance tests
RECURSIVE RouterCalls(_)
RouterCalls(items) ==
    IF items = <<>> THEN <<>>
    ELSE (IF HasCls(Head(items).callback) THEN <<"cls", "cls">> ELSE <<>>)
         \o RouterCalls(Tail(items))

Router__lt__(self, other) ==
    IF self.router.namespace # other.router.namespace
    THEN StrLt(Val(self.router.namespace), Val(other.router.namespace))
    ELSE StrLt(Val(self.router.app_name), Val(other.router.namespace))

prefix(self) == StripCaret(self.router.pattern)

suffix(self) == StripCaret(self.item.pattern)

url_pattern(self) == <<"^">> \o prefix(self.router) \o suffix(self)

\* variant: the namespace is always prefixed
view_nameAlways(self) ==
    Format(self.router.router.namespace) \o <<":">> \o Format(self.item.name)

view_name(self) ==
    (IF Truthy(self.router.router.namespace)
     THEN Format(self.router.router.namespace) \o <<":">> ELSE <<>>)
    \o Format(self.item.name)

\* RouterURLPattern.queryset: the value returned or the exception raised, and
\* the view methods and attributes it touches, in order
queryset(self) ==
    LET cls == Classes[self.item.callback]
    IN IF cls.get_queryset
       THEN [ret |-> Some(<<"get_queryset()", self.item.callback>>), raised |-> None,
             calls |-> <<"cls", "cls", "get_queryset">>]
       ELSE IF cls.queryset # None
       THEN [ret |-> Some(<<"queryset", Val(cls.queryset)>>), raised |-> None,
             calls |-> <<"cls", "queryset", "queryset">>]
       ELSE [ret |-> None, raised |-> Some("NotImplementedError"),
             calls |-> <<"cls", "queryset">>]

\* list.sort() of fewer than 64 items: the leading run is found with __lt__,
\* reversed when descending, and the rest is inserted by binary search
RECURSIVE RunEnd(_, _, _)
RunEnd(s, n, descending) ==
    IF n = Len(s) THEN n
    ELSE IF Router__lt__(s[n + 1], s[n]) = descending THEN RunEnd(s, n + 1, descending)
    ELSE n

RECURSIVE Reverse(_)
Reverse(s) == IF s = <<>> THEN <<>> ELSE Append(Reverse(Tail(s)), Head(s))

RECURSIVE BinarySearch(_, _, _, _)
BinarySearch(s, pivot, l, r) ==
    IF l >= r THEN l
    ELSE LET p == l + ((r - l) \div 2)
         IN IF Router__lt__(pivot, s[p + 1])
            THEN BinarySearch(s, pivot, l, p)
            ELSE BinarySearch(s, pivot, p + 1, r)

RECURSIVE BinarySort(_, _)
BinarySort(s, start) ==
    IF start > Len(s) THEN s
    ELSE LET pivot == s[start]
             l == BinarySearch(s, pivot, 0, start - 1)
             moved == SubSeq(s, 1, l) \o <<pivot>> \o SubSeq(s, l + 1, start - 1)
                      \o SubSeq(s, start + 1, Len(s))
         IN BinarySort(moved, start + 1)

sort(s) ==
    IF Len(s) < 2 THEN s
    ELSE LET descending == Router__lt__(s[2], s[1])
             n == RunEnd(s, 2, descending)
             run == IF descending THEN Reverse(SubSeq(s, 1, n)) ELSE SubSeq(s, 1, n)
         IN BinarySort(run \o SubSeq(s, n + 1, Len(s)), n + 1)

\* the loop of APIRouters.__init__ over the root urlpatterns
RECURSIVE Discover(_)
Discover(urlpatterns) ==
    IF urlpatterns = <<>> THEN <<>>
    ELSE LET router == Head(urlpatterns)
         IN (IF router.kind # "URLResolver" THEN <<>>
             ELSE IF router.app_name \in IGNORE_ROUTER_NAMES THEN <<>>
             ELSE <<Router(router)>>)
            \o Discover(Tail(urlpatterns))

APIRouters(urlpatterns) == sort(Discover(urlpatterns))

\* the view methods invoked while APIRouters() is constructed
RECURSIVE APIRoutersCalls(_)
APIRoutersCalls(urlpatterns) ==
    IF urlpatterns = <<>> THEN <<>>
    ELSE LET router == Head(urlpatterns)
         IN (IF router.kind # "URLResolver" THEN <<>>
             ELSE IF router.app_name \in IGNORE_ROUTER_NAMES THEN <<>>
             ELSE RouterCalls(router.url_patterns))
            \o APIRoutersCalls(Tail(urlpatterns))

\* the inner loop of get_view_url_pattern over one router
RECURSIVE FindInRouter(_, _)
FindInRouter(url_patterns, name) ==
    IF url_patterns = <<>> THEN None
    ELSE IF view_name(Head(url_patterns)) = name THEN Some(Head(url_patterns))
    ELSE FindInRouter(Tail(url_patterns), name)

\* variant: None is returned when no pattern matches, as get_url_pattern does
RECURSIVE get_view_url_patternOrNone(_, _)
get_view_url_patternOrNone(self, name) ==
    IF self = <<>> THEN [ret |-> None, raised |-> None]
    ELSE LET found == FindInRouter(Head(self).url_patterns, name)
         IN IF found # None THEN [ret |-> found, raised |-> None]
            ELSE get_view_url_patternOrNone(Tail(self), name)

RECURSIVE get_view_url_pattern(_, _)
get_view_url_pattern(self, name) ==
    IF self = <<>> THEN [ret |-> None, raised |-> Some("ValueError")]
    ELSE LET found == FindInRouter(Head(self).url_patterns, name)
         IN IF found # None THEN [ret |-> found, raised |-> None]
            ELSE get_view_url_pattern(Tail(self), name)

\* ------------------------------------------------------------------------
\* testcase.py
\* ------------------------------------------------------------------------
\* get_serializer_class of the example views (views.py)
SerializerFor(callback, action) ==
    IF action = "list" THEN <<callback, "ListSerializer">> ELSE <<callback, "DetailsSerializer">>

\* url_pattern.item.callback.cls(action=action).get_serializer_class()
get_serializer_for_url_pattern(p, action) ==
    IF Classes[p.item.callback].get_serializer_class
    THEN [ret |-> Some(SerializerFor(p.item.callback, action)), raised |-> None,
          calls |-> <<"cls", "get_serializer_class">>]
    ELSE [ret |-> None, raised |-> Some("AttributeError"), calls |-> <<"cls">>]

Min(a, b) == IF a < b THEN a ELSE b

\* rest_framework.status
HTTP_200_OK == 200
HTTP_201_CREATED == 201
HTTP_401_UNAUTHORIZED == 401

\* the value of a keyword argument that was left out
Default(arg, default) == IF arg = None THEN default ELSE Val(arg)

\* response.data of a listing: a list of len records, a dict with an optional
\* page_size and optional results (their number), or anything else;
\* records_ok tells whether validate_record accepts every record
ResponseData(type, page_size, results, len, records_ok) ==
    [type |-> type, page_size |-> page_size, results |-> results, len |-> len,
     records_ok |-> records_ok]

get_page_size(data) ==
    IF data.type = "dict"
    THEN IF data.page_size # None THEN [ret |-> data.page_size, raised |-> None]
         ELSE IF data.results # None THEN [ret |-> data.results, raised |-> None]
         ELSE [ret |-> None, raised |-> Some("NotImplementedError")]
    ELSE IF data.type = "list" THEN [ret |-> Some(data.len), raised |-> None]
    ELSE [ret |-> None, raised |-> None]

\* get_expected_queryset: the number of rows of url_pattern.queryset, sliced
\* to expected_item_count when that is given, for a table of rows rows
get_expected_queryset(p, expected_item_count, rows) ==
    LET q == queryset(p)
    IN [ret |-> IF q.raised # None THEN None
                ELSE IF expected_item_count # None
                THEN Some(Min(Val(expected_item_count), rows))
                ELSE Some(rows),
        raised |-> q.raised, calls |-> q.calls]

\* validate_result_set: the exception raised, None when it returns
validate_result_set(data, count, fields, expected_result_count) ==
    LET expected == IF expected_result_count = None THEN count ELSE Val(expected_result_count)
    IN IF data.type = "dict" /\ data.results = None THEN Some("ValueError")
       ELSE IF data.type \notin {"dict", "list"} THEN Some("ValueError")
       ELSE IF (IF data.type = "dict" THEN Val(data.results) ELSE data.len) # expected
       THEN Some("AssertionError")
       ELSE IF fields = None THEN None
       ELSE IF data.type = "list" THEN Some("TypeError")
       ELSE IF Val(data.results) > 0 /\ ~data.records_ok THEN Some("AssertionError")
       ELSE None

\* variant: the result set is validated whatever the expected status
validates_result_setAlways(expected_success_code) == TRUE

\* if expected_success_code == status.HTTP_200_OK
validates_result_set(expected_success_code) == expected_success_code = HTTP_200_OK

\* reverse(view_name) of the names the URL configuration registers; a name
\* it does not know raises NoReverseMatch
reverse(urlconf, name) ==
    IF \E k \in 1..Len(urlconf) :
          /\ urlconf[k].kind = "URLResolver"
          /\ \E i \in 1..Len(urlconf[k].url_patterns) :
                view_name(RouterURLPattern(urlconf[k], urlconf[k].url_patterns[i])) = name
    THEN [ret |-> Some(<<"url", name>>), raised |-> None]
    ELSE [ret |-> None, raised |-> Some("NoReverseMatch")]

\* Python values of a record: <<"str", s>>, <<"bool", b>> and <<"int", n>>
PyStr(value) == <<"str", value>>
PyBool(value) == <<"bool", value>>
PyInt(value) == <<"int", value>>

\* a == b of two such values: bool is a subclass of int, a str equals a str
PyEq(a, b) ==
    IF a[1] = "str" \/ b[1] = "str" THEN a[1] = b[1] /\ a[2] = b[2]
    ELSE (IF a[1] = "bool" THEN (IF a[2] THEN 1 ELSE 0) ELSE a[2])
         = (IF b[1] = "bool" THEN (IF b[2] THEN 1 ELSE 0) ELSE b[2])

P_testserver == <<"h","t","t","p",":","/","/","t","e","s","t","s","e","r","v","e","r">>
V_true == <<"t","r","u","e">>
V_false == <<"f","a","l","s","e">>
V_link == <<"/","x">>
V_full_link == <<"h","t","t","p",":","/","/","t","e","s","t","s","e","r","v","e","r","/","x">>

\* json.loads(res.content) of a JSON object: true, false, numbers and strings
\* become True, False, int and str; anything that is not JSON raises
loads(content) ==
    IF ~content.valid THEN [ret |-> None, raised |-> Some("JSONDecodeError")]
    ELSE [ret |-> Some([key \in DOMAIN content.members |->
                          LET token == content.members[key]
                          IN IF token[1] = "true" THEN PyBool(TRUE)
                             ELSE IF token[1] = "false" THEN PyBool(FALSE)
                             ELSE IF token[1] = "number" THEN PyInt(token[2])
                             ELSE PyStr(token[2])]),
          raised |-> None]

\* the hyperlink normalisation of compare_record_to_data
StripTestserver(value) ==
    IF value[1] = "str"
       /\ SubSeq(value[2], 1, Min(Len(P_testserver), Len(value[2]))) = P_testserver
    THEN PyStr(SubSeq(value[2], Len(P_testserver) + 1, Len(value[2])))
    ELSE value

\* variant: a key the record lacks is skipped
RECURSIVE compare_record_to_dataLenient(_, _)
compare_record_to_dataLenient(record, data) ==
    IF data = <<>> THEN [record |-> record, raised |-> None]
    ELSE LET key == Head(data)[1]
             value == Head(data)[2]
         IN IF key \notin DOMAIN record
            THEN compare_record_to_dataLenient(record, Tail(data))
            ELSE LET stripped == [record EXCEPT ![key] = StripTestserver(record[key])]
                     expected == IF PyEq(value, PyStr(V_true)) THEN PyBool(TRUE)
                                 ELSE IF PyEq(value, PyStr(V_false)) THEN PyBool(FALSE)
                                 ELSE value
                 IN IF ~PyEq(stripped[key], expected)
                    THEN [record |-> stripped, raised |-> Some("AssertionError")]
                    ELSE compare_record_to_dataLenient(stripped, Tail(data))

\* compare_record_to_data over the items of data, in order: the record as it
\* leaves it and the exception raised, if any
RECURSIVE compare_record_to_data(_, _)
compare_record_to_data(record, data) ==
    IF data = <<>> THEN [record |-> record, raised |-> None]
    ELSE LET key == Head(data)[1]
             value == Head(data)[2]
         IN IF key \notin DOMAIN record
            THEN [record |-> record, raised |-> Some("ValidationError")]
            ELSE LET stripped == [record EXCEPT ![key] = StripTestserver(record[key])]
                     expected == IF PyEq(value, PyStr(V_true)) THEN PyBool(TRUE)
                                 ELSE IF PyEq(value, PyStr(V_false)) THEN PyBool(FALSE)
                                 ELSE value
                 IN IF ~PyEq(stripped[key], expected)
                    THEN [record |-> stripped, raised |-> Some("AssertionError")]
                    ELSE compare_record_to_data(stripped, Tail(data))

\* ------------------------------------------------------------------------
\* validator.py
\* ------------------------------------------------------------------------
N_validate == <<"v","a","l","i","d","a","t","e">>
N_validate_ == <<"v","a","l","i","d","a","t","e","_">>
N_validators == <<"v","a","l","i","d","a","t","o","r","s">>
N_get_validators == <<"g","e","t","_","v","a","l","i","d","a","t","o","r","s">>
N_attrs == <<"a","t","t","r","s">>
N_call == <<"_","_","c","a","l","l","_","_">>
N_init == <<"_","_","i","n","i","t","_","_">>
N_validate_required_fields == <<"v","a","l","i","d","a","t","e","_","r","e","q","u","i","r","e","d","_","f","i","e","l","d","s">>
N_validate_label == <<"v","a","l","i","d","a","t","e","_","l","a","b","e","l">>
N_validate_then == <<"v","a","l","i","d","a","t","e","_","t","h","e","n">>
N_validate_first == <<"v","a","l","i","d","a","t","e","_","f","i","r","s","t">>
N_validate_strict == <<"v","a","l","i","d","a","t","e","_","s","t","r","i","c","t">>
N_validate_missing == <<"v","a","l","i","d","a","t","e","_","m","i","s","s","i","n","g">>
N_validate_Zip == <<"v","a","l","i","d","a","t","e","_","Z","i","p">>
L_test == <<"t","e","s","t">>
L_test_record == <<"t","e","s","t"," ","r","e","c","o","r","d">>
L_record == <<"r","e","c","o","r","d">>
L_blank == <<" ">>

\* a validator class: the class variable validators (None when not set), the
\* validator methods it defines and its further non-callable attributes
ValidatorClass(validators, methods, data) ==
    [validators |-> validators, methods |-> methods, data |-> data]

ValidatorClasses ==
    [BaseValidator |-> ValidatorClass(None, {}, {}),
     ExampleValidatior |->
        ValidatorClass(Some(<<N_validate_required_fields, N_validate_label>>),
                       {N_validate_required_fields, N_validate_label}, {}),
     ExampleUUIDValidatior |-> ValidatorClass(None, {N_validate_then, N_validate_first}, {}),
     EmptyListValidator |->
        ValidatorClass(Some(<<>>), {N_validate_first, N_validate_Zip}, {N_validate_strict}),
     ReversedValidator |->
        ValidatorClass(Some(<<N_validate_then, N_validate_Zip, N_validate_first>>),
                       {N_validate_then, N_validate_first, N_validate_Zip}, {}),
     RepeatValidator |->
        ValidatorClass(Some(<<N_validate_Zip, N_validate_first, N_validate_Zip>>),
                       {N_validate_first, N_validate_Zip}, {}),
     DataValidator |->
        ValidatorClass(Some(<<N_validate_first, N_attrs, N_validate_then>>),
                       {N_validate_then, N_validate_first}, {}),
     MissingValidator |->
        ValidatorClass(Some(<<N_validate_Zip, N_validate_missing, N_validate_first>>),
                       {N_validate_first, N_validate_Zip}, {})]

\* BaseValidator(attrs) of a class
Validator(cls, attrs) == [cls |-> cls, attrs |-> attrs]

\* the names of the attributes that are callable
Callables(self) ==
    {N_validate, N_get_validators, N_call, N_init} \cup ValidatorClasses[self.cls].methods

\* dir(self)
dir(self) ==
    Callables(self) \cup {N_attrs} \cup ValidatorClasses[self.cls].data
    \cup (IF ValidatorClasses[self.cls].validators # None THEN {N_validators} ELSE {})

\* variant: key[:8] == 'validate'
IsValidatorName8(key) == SubSeq(key, 1, Min(8, Len(key))) = N_validate

\* key[:9] == 'validate_'
IsValidatorName(key) == SubSeq(key, 1, Min(9, Len(key))) = N_validate_

\* sorted() of a set of distinct str
RECURSIVE sorted(_)
sorted(keys) ==
    IF keys = {} THEN <<>>
    ELSE LET first == CHOOSE k \in keys : \A other \in keys \ {k} : StrLt(k, other)
         IN <<first>> \o sorted(keys \ {first})

get_validators(self) ==
    LET validator_names == ValidatorClasses[self.cls].validators
    IN IF validator_names # None /\ Val(validator_names) # <<>>
       THEN Val(validator_names)
       ELSE sorted({key \in dir(self) : IsValidatorName(key) /\ key \in Callables(self)})

\* str.split(): the words between runs of blanks
RECURSIVE split(_, _)
split(value, word) ==
    IF value = <<>> THEN (IF word = <<>> THEN <<>> ELSE <<word>>)
    ELSE IF Head(value) = " "
    THEN (IF word = <<>> THEN <<>> ELSE <<word>>) \o split(Tail(value), <<>>)
    ELSE split(Tail(value), Append(word, Head(value)))

\* the validator methods of validators.py: the ValidationError raised for
\* self.attrs or None when the method returns
callback(self, name) ==
    LET label == self.attrs.label
    IN IF name = N_validate_required_fields \/ name = N_validate_first
       THEN (IF ~Truthy(label) THEN Some(<<"ValidationError", "No label specified">>) ELSE None)
       ELSE IF name = N_validate_then
       THEN (IF ~Truthy(label) THEN Some(<<"ValidationError", "Still no label specified">>)
             ELSE None)
       ELSE IF name = N_validate_label
       THEN (IF label = None \/ split(Val(label), <<>>) = <<>>
                \/ split(Val(label), <<>>)[1] # L_test
             THEN Some(<<"ValidationError", "Error parsing label">>) ELSE None)
       ELSE None

\* variant: the exception of a validator is swallowed
validate_nextSwallow(self, name) ==
    IF name \notin dir(self)
    THEN [called |-> <<>>, raised |-> Some(<<"AttributeError", name>>)]
    ELSE IF name \notin Callables(self)
    THEN [called |-> <<>>, raised |-> Some(<<"ValidationError", "Not a callable method">>)]
    ELSE [called |-> <<name>>, raised |-> None]

\* one iteration of the loop of validate() over name: the validator called,
\* if any, and the exception that ends the loop, if any
validate_next(self, name) ==
    IF name \notin dir(self)
    THEN [called |-> <<>>, raised |-> Some(<<"AttributeError", name>>)]
    ELSE IF name \notin Callables(self)
    THEN [called |-> <<>>, raised |-> Some(<<"ValidationError", "Not a callable method">>)]
    ELSE [called |-> <<name>>, raised |-> callback(self, name)]

\* ------------------------------------------------------------------------
\* State
\* ------------------------------------------------------------------------
VARIABLES
    urlpatterns,    \* the root URL configuration's urlpatterns
    routers,        \* the APIRouters list; None before setUp
    calls,          \* how often each view method or attribute was used
    last,           \* the last operation, its arguments and its outcome
    validator,      \* the BaseValidator instance; None when there is none
    frame,          \* the running validator call: entry point, names, position
    called,         \* the validator methods called so far, in order
    client,         \* the test client: the user logged in, None when logged out
    steps,          \* what the running test helper did so far, in order
    test            \* the running test helper: its arguments and position

vars == <<urlpatterns, routers, calls, last, validator, frame, called, client, steps, test>>

discovery == <<urlpatterns, routers, calls>>
validation == <<validator, frame, called>>
testing == <<client, steps, test>>

Methods == {"cls", "get_queryset", "get_serializer_class", "queryset"}

Count(trace, m) == Cardinality({i \in 1..Len(trace) : trace[i] = m})

Called(trace) == [m \in Methods |-> calls[m] + Count(trace, m)]

Idle == [pc |-> "idle", entry |-> "none", names |-> <<>>, i |-> 0]

\* no test helper is running
NoTest == [op |-> "none", pc |-> "idle"]

NoOp == [op |-> "none", args |-> <<>>, ret |-> None, raised |-> None]

\* APITestCase.setUp: self.routers = APIRouters()
SetUp ==
    /\ routers = None
    /\ routers' = Some(APIRouters(urlpatterns))
    /\ calls' = Called(APIRoutersCalls(urlpatterns))
    /\ last' = [op |-> "APIRouters", args |-> <<>>, ret |-> None, raised |-> None]
    /\ UNCHANGED <<urlpatterns, validation, testing>>

ViewNames ==
    {S_example \o <<":">> \o S_example_list, S_example_list, S_inner_list,
     S_inner \o <<":">> \o S_inner_list, S_v1 \o <<":">> \o S_inner_list,
     S_example \o <<":">> \o S_api_root, S_v1 \o <<":">> \o S_None, S_missing}

GetViewUrlPattern ==
    /\ routers # None
    /\ \E name \in ViewNames :
        LET r == get_view_url_pattern(Val(routers), name)
        IN last' = [op |-> "get_view_url_pattern", args |-> <<name>>,
                    ret |-> r.ret, raised |-> r.raised]
    /\ UNCHANGED <<urlpatterns, routers, calls, validation, testing>>

\* the discovered patterns, as (router index, pattern index)
Patterns ==
    IF routers = None THEN {}
    ELSE UNION {{<<i, j>> : j \in 1..Len(Val(routers)[i].url_patterns)} :
                   i \in 1..Len(Val(routers))}

PatternAt(ij) == Val(routers)[ij[1]].url_patterns[ij[2]]

ReadQueryset ==
    /\ calls["cls"] < MaxInstances
    /\ \E ij \in Patterns :
        LET r == queryset(PatternAt(ij))
        IN /\ last' = [op |-> "queryset", args |-> <<ij>>, ret |-> r.ret, raised |-> r.raised]
           /\ calls' = Called(r.calls)
    /\ UNCHANGED <<urlpatterns, routers, validation, testing>>

GetSerializer ==
    /\ calls["cls"] < MaxInstances
    /\ \E ij \in Patterns, action \in {"list", "retrieve"} :
        LET r == get_serializer_for_url_pattern(PatternAt(ij), action)
        IN /\ last' = [op |-> "get_serializer_for_url_pattern", args |-> <<ij, action>>,
                       ret |-> r.ret, raised |-> r.raised]
           /\ calls' = Called(r.calls)
    /\ UNCHANGED <<urlpatterns, routers, validation, testing>>

ReadUrlPattern ==
    /\ \E ij \in Patterns :
        last' = [op |-> "url_pattern", args |-> <<ij>>,
                 ret |-> Some(url_pattern(PatternAt(ij))), raised |-> None]
    /\ UNCHANGED <<urlpatterns, routers, calls, validation, testing>>

ReadViewName ==
    /\ \E ij \in Patterns :
        last' = [op |-> "view_name", args |-> <<ij>>,
                 ret |-> Some(view_name(PatternAt(ij))), raised |-> None]
    /\ UNCHANGED <<urlpatterns, routers, calls, validation, testing>>

\* ------------------------------------------------------------------------
\* Spec: discovery over root configurations of up to MaxRoot entries
\* ------------------------------------------------------------------------
Init ==
    /\ urlpatterns \in SeqsUpTo(RootEntries, MaxRoot)
    /\ routers = None
    /\ calls = [m \in Methods |-> 0]
    /\ last = NoOp
    /\ validator = None /\ frame = Idle /\ called = <<>>
    /\ client = None /\ steps = <<>> /\ test = NoTest

Next ==
    \/ SetUp
    \/ GetViewUrlPattern

Spec == Init /\ [][Next]_vars

\* ------------------------------------------------------------------------
\* SpecLazy: the queryset and serializer accessors
\* ------------------------------------------------------------------------
InitLazy ==
    /\ urlpatterns \in SeqsUpTo(RootEntries, MaxLazyRoot)
    /\ routers = None
    /\ calls = [m \in Methods |-> 0]
    /\ last = NoOp
    /\ validator = None /\ frame = Idle /\ called = <<>>
    /\ client = None /\ steps = <<>> /\ test = NoTest

NextLazy ==
    \/ SetUp
    \/ ReadQueryset
    \/ GetSerializer

SpecLazy == InitLazy /\ [][NextLazy]_vars

\* ------------------------------------------------------------------------
\* SpecPattern: url_pattern and view_name over every regex pattern string of
\* up to MaxLen characters
\* ------------------------------------------------------------------------
PatternAlphabet == {"^", "a"}

Namespaces == {None, Some(<<>>), Some(S_example)}

Names == {Some(S_example_list), Some(<<>>)}

InitPattern ==
    /\ \E pre \in SeqsUpTo(PatternAlphabet, MaxLen), suf \in SeqsUpTo(PatternAlphabet, MaxLen),
          namespace \in Namespaces, name \in Names :
        urlpatterns = << URLResolver(pre, Some(S_example), namespace,
                             << URLPattern(suf, name, "APIRootView") >>) >>
    /\ routers = None
    /\ calls = [m \in Methods |-> 0]
    /\ last = NoOp
    /\ validator = None /\ frame = Idle /\ called = <<>>
    /\ client = None /\ steps = <<>> /\ test = NoTest

NextPattern ==
    \/ SetUp
    \/ ReadUrlPattern
    \/ ReadViewName

SpecPattern == InitPattern /\ [][NextPattern]_vars

\* ------------------------------------------------------------------------
\* SpecValidator: one call of a validator instance, by validate() or by ()
\* ------------------------------------------------------------------------
Labels == {None, Some(<<>>), Some(L_blank), Some(L_test_record), Some(L_record)}

InitValidator ==
    /\ urlpatterns = <<>> /\ routers = None /\ calls = [m \in Methods |-> 0]
    /\ last = NoOp
    /\ \E cls \in DOMAIN ValidatorClasses, label \in Labels :
        validator = Some(Validator(cls, [label |-> label]))
    /\ frame = Idle
    /\ called = <<>>
    /\ client = None /\ steps = <<>> /\ test = NoTest

Done(op, ret, raised) ==
    /\ frame' = [frame EXCEPT !.pc = "done", !.entry = op]
    /\ last' = [op |-> op, args |-> <<>>, ret |-> ret, raised |-> raised]

\* validate() up to the loop
Validate ==
    /\ validator # None /\ frame.pc = "idle"
    /\ LET validator_method_names == get_validators(Val(validator))
       IN IF validator_method_names = <<>>
          THEN /\ frame' = [pc |-> "done", entry |-> "validate",
                            names |-> validator_method_names, i |-> 0]
               /\ last' = [op |-> "validate", args |-> <<>>, ret |-> None,
                           raised |-> Some(<<"ValidationError", "Validator defines no validators">>)]
          ELSE /\ frame' = [pc |-> "loop", entry |-> "validate",
                            names |-> validator_method_names, i |-> 1]
               /\ last' = last
    /\ UNCHANGED <<discovery, testing, validator, called>>

\* one iteration of the loop of validate()
ValidateNext ==
    /\ frame.pc = "loop" /\ frame.i <= Len(frame.names)
    /\ LET r == validate_next(Val(validator), frame.names[frame.i])
       IN /\ called' = called \o r.called
          /\ IF r.raised # None
             THEN Done("validate", None, r.raised)
             ELSE /\ frame' = [frame EXCEPT !.i = frame.i + 1]
                  /\ last' = last
    /\ UNCHANGED <<discovery, testing, validator>>

\* return self.attrs
ValidateReturn ==
    /\ frame.pc = "loop" /\ frame.i > Len(frame.names)
    /\ Done("validate", Some(Val(validator).attrs), None)
    /\ UNCHANGED <<discovery, testing, validator, called>>

\* __call__: the body is the docstring alone
Call ==
    /\ validator # None /\ frame.pc = "idle"
    /\ Done("__call__", None, None)
    /\ UNCHANGED <<discovery, testing, validator, called>>

NextValidator ==
    \/ Validate
    \/ ValidateNext
    \/ ValidateReturn
    \/ Call

SpecValidator == InitValidator /\ [][NextValidator]_vars

\* ------------------------------------------------------------------------
\* SpecTest: one call of validate_protected_api_listing or create_record in
\* a test of the example project, against a server that answers any status
\* ------------------------------------------------------------------------
Statuses == {HTTP_200_OK, HTTP_201_CREATED, HTTP_401_UNAUTHORIZED, 403}

ListingData ==
    {ResponseData("list", None, None, n, TRUE) : n \in 0..MaxRecords}
    \cup {ResponseData("dict", page_size, results, 0, ok) :
            page_size \in {None, Some(1)},
            results \in {None} \cup {Some(n) : n \in 0..MaxRecords},
            ok \in BOOLEAN}
    \cup {ResponseData("other", None, None, 0, TRUE)}

ListingArgs ==
    [credentials_ok : BOOLEAN,
     view_name : {S_example \o <<":">> \o S_example_list, S_example \o <<":">> \o S_api_root,
                  S_missing},
     fields : {None, Some("fields")},
     expected_failure_code : {None, Some(403)},
     expected_success_code : {None, Some(403)},
     expected_results_count : {None, Some(1)},
     rows : 0..MaxRecords]

\* the keys and values of the submitted data and of the JSON object answered
DataKeys == {"url", "active"}

DataValues == {PyStr(V_true), PyStr(V_false), PyStr(V_link)}

JsonTokens ==
    {<<"true">>, <<"false">>, <<"number", 1>>, <<"string", V_true>>, <<"string", V_link>>,
     <<"string", V_full_link>>}

\* data.items(): items with distinct keys, in insertion order
DataItems ==
    {items \in SeqsUpTo(DataKeys \X DataValues, Cardinality(DataKeys)) :
        \A i, j \in 1..Len(items) : i # j => items[i][1] # items[j][1]}

Contents ==
    {[valid |-> FALSE, members |-> <<>>]}
    \cup UNION {{[valid |-> TRUE, members |-> members] : members \in [keys -> JsonTokens]} :
                   keys \in SUBSET DataKeys}

CreateArgs ==
    [credentials_ok : BOOLEAN,
     view_name : {S_example \o <<":">> \o S_example_list, S_missing},
     data : DataItems]

\* one entry of steps
Step(call, authenticated, status, data) ==
    [call |-> call, authenticated |-> authenticated, status |-> status, data |-> data]

\* the helper ends: it returns ret or raises raised
Finish(ret, raised) ==
    /\ test' = [test EXCEPT !.pc = "done"]
    /\ last' = [op |-> test.op, args |-> <<>>, ret |-> ret, raised |-> raised]

Goto(pc) == test' = [test EXCEPT !.pc = pc] /\ last' = last

InitTest ==
    /\ urlpatterns = <<ExampleURLs, AdminURLs>>
    /\ routers = Some(APIRouters(urlpatterns))
    /\ calls = [m \in Methods |-> Count(APIRoutersCalls(urlpatterns), m)]
    /\ last = NoOp
    /\ validator = None /\ frame = Idle /\ called = <<>>
    /\ client \in {None, Some("user")}
    /\ steps = <<>>
    /\ \/ \E args \in ListingArgs :
            test = [op |-> "validate_protected_api_listing", pc |-> "begin", args |-> args,
                    url_pattern |-> None, serializer |-> None, res |-> None]
       \/ \E args \in CreateArgs :
            test = [op |-> "create_record", pc |-> "begin", args |-> args,
                    url_pattern |-> None, serializer |-> None, res |-> None]

\* validate_protected_api_listing up to self.client.logout()
ListingBegin ==
    /\ test.op = "validate_protected_api_listing" /\ test.pc = "begin"
    /\ LET found == get_view_url_pattern(Val(routers), test.args.view_name)
       IN IF found.raised # None
          THEN Finish(None, found.raised) /\ calls' = calls
          ELSE LET serializer == get_serializer_for_url_pattern(Val(found.ret), "list")
                   url == reverse(urlpatterns, test.args.view_name)
               IN /\ calls' = Called(serializer.calls)
                  /\ IF serializer.raised # None THEN Finish(None, serializer.raised)
                     ELSE IF url.raised # None THEN Finish(None, url.raised)
                     ELSE /\ test' = [test EXCEPT !.pc = "logout",
                                                  !.url_pattern = found.ret,
                                                  !.serializer = serializer.ret]
                          /\ last' = last
    /\ UNCHANGED <<urlpatterns, routers, validation, client, steps>>

\* self.client.logout()
Logout ==
    /\ test.pc = "logout"
    /\ client' = None
    /\ steps' = Append(steps, Step("logout", FALSE, None, None))
    /\ Goto("anonymous")
    /\ UNCHANGED <<discovery, validation>>

\* res = self.client.get(url); assertEqual(res.status_code, expected_failure_code)
ListingGetAnonymous ==
    /\ test.op = "validate_protected_api_listing" /\ test.pc = "anonymous"
    /\ \E status \in Statuses :
        /\ steps' = Append(steps, Step("get", client # None, Some(status), None))
        /\ IF status # Default(test.args.expected_failure_code, HTTP_401_UNAUTHORIZED)
           THEN Finish(None, Some("AssertionError"))
           ELSE Goto("login")
    /\ UNCHANGED <<discovery, validation, client>>

\* self.client.login(**self.get_login_arguments(user, password))
Login ==
    /\ test.pc = "login"
    /\ client' = IF test.args.credentials_ok THEN Some("user") ELSE client
    /\ steps' = Append(steps, Step("login", FALSE, None, None))
    /\ Goto("authenticated")
    /\ UNCHANGED <<discovery, validation>>

\* res = self.client.get(url); assertEqual(res.status_code, expected_success_code)
ListingGetAuthenticated ==
    /\ test.op = "validate_protected_api_listing" /\ test.pc = "authenticated"
    /\ \E status \in Statuses, data \in ListingData :
        LET expected_success_code == Default(test.args.expected_success_code, HTTP_200_OK)
            res == [status_code |-> status, data |-> data]
        IN /\ steps' = Append(steps, Step("get", client # None, Some(status), None))
           /\ IF status # expected_success_code
              THEN test' = [test EXCEPT !.pc = "done"]
                   /\ last' = [op |-> test.op, args |-> <<>>, ret |-> None,
                               raised |-> Some("AssertionError")]
              ELSE IF validates_result_set(expected_success_code)
              THEN test' = [test EXCEPT !.pc = "validate", !.res = Some(res)] /\ last' = last
              ELSE test' = [test EXCEPT !.pc = "done", !.res = Some(res)]
                   /\ last' = [op |-> test.op, args |-> <<>>,
                               ret |-> Some(<<res, Val(test.url_pattern), Val(test.serializer)>>),
                               raised |-> None]
    /\ UNCHANGED <<discovery, validation, client>>

\* the result set is validated and the helper returns
ListingValidate ==
    /\ test.op = "validate_protected_api_listing" /\ test.pc = "validate"
    /\ LET res == Val(test.res)
           size == get_page_size(res.data)
       IN IF size.raised # None
          THEN Finish(None, size.raised) /\ calls' = calls /\ steps' = steps
          ELSE LET expected == get_expected_queryset(Val(test.url_pattern), size.ret,
                                                     test.args.rows)
               IN /\ calls' = Called(expected.calls)
                  /\ IF expected.raised # None
                     THEN Finish(None, expected.raised) /\ steps' = steps
                     ELSE LET raised == validate_result_set(res.data, Val(expected.ret),
                                            test.args.fields, test.args.expected_results_count)
                          IN /\ steps' = Append(steps,
                                    Step("validate_result_set", FALSE, None, None))
                             /\ IF raised # None THEN Finish(None, raised)
                                ELSE Finish(Some(<<res, Val(test.url_pattern),
                                                   Val(test.serializer)>>), None)
    /\ UNCHANGED <<urlpatterns, routers, validation, client>>

\* create_record up to self.client.logout(): url = reverse(view_name)
CreateBegin ==
    /\ test.op = "create_record" /\ test.pc = "begin"
    /\ LET url == reverse(urlpatterns, test.args.view_name)
       IN IF url.raised # None THEN Finish(None, url.raised) ELSE Goto("logout")
    /\ UNCHANGED <<discovery, validation, client, steps>>

\* res = self.client.post(url, data); assertEqual(res.status_code, 401)
CreatePostAnonymous ==
    /\ test.op = "create_record" /\ test.pc = "anonymous"
    /\ \E status \in Statuses :
        /\ steps' = Append(steps, Step("post", client # None, Some(status), Some(test.args.data)))
        /\ IF status # HTTP_401_UNAUTHORIZED
           THEN Finish(None, Some("AssertionError"))
           ELSE Goto("login")
    /\ UNCHANGED <<discovery, validation, client>>

\* res = self.client.post(url, data); assertEqual(res.status_code, 201, res.data)
CreatePostAuthenticated ==
    /\ test.op = "create_record" /\ test.pc = "authenticated"
    /\ \E status \in Statuses, content \in Contents :
        /\ steps' = Append(steps, Step("post", client # None, Some(status), Some(test.args.data)))
        /\ IF status # HTTP_201_CREATED
           THEN /\ test' = [test EXCEPT !.pc = "done"]
                /\ last' = [op |-> test.op, args |-> <<>>, ret |-> None,
                            raised |-> Some("AssertionError")]
           ELSE /\ test' = [test EXCEPT !.pc = "compare",
                                        !.res = Some([status_code |-> status, content |-> content])]
                /\ last' = last
    /\ UNCHANGED <<discovery, validation, client>>

\* record = json.loads(res.content); compare_record_to_data; return record
CreateCompare ==
    /\ test.op = "create_record" /\ test.pc = "compare"
    /\ LET record == loads(Val(test.res).content)
       IN IF record.raised # None
          THEN Finish(None, record.raised) /\ steps' = steps
          ELSE LET compared == compare_record_to_data(Val(record.ret), test.args.data)
               IN /\ steps' = Append(steps, Step("compare_record_to_data", FALSE, None, None))
                  /\ IF compared.raised # None THEN Finish(None, compared.raised)
                     ELSE Finish(Some(compared.record), None)
    /\ UNCHANGED <<discovery, validation, client>>

NextTest ==
    \/ ListingBegin
    \/ Logout
    \/ ListingGetAnonymous
    \/ Login
    \/ ListingGetAuthenticated
    \/ ListingValidate
    \/ CreateBegin
    \/ CreatePostAnonymous
    \/ CreatePostAuthenticated
    \/ CreateCompare

SpecTest == InitTest /\ [][NextTest]_vars

\* ------------------------------------------------------------------------
\* Properties
\* ------------------------------------------------------------------------
Range(s) == {s[i] : i \in 1..Len(s)}

\* a root entry that is a URLResolver with an app_name other than None,
\* 'admin' and 'rest_framework'
Relevant(entry) ==
    /\ entry.kind = "URLResolver"
    /\ entry.app_name # None
    /\ entry.app_name # Some(S_admin)
    /\ entry.app_name # Some(S_rest_framework)

\* C1: once APIRouters() is constructed it holds exactly one Router per entry
\* of the root urlpatterns that is a URLResolver with an app_name that is not
\* None, 'admin' or 'rest_framework', and no Router of any other entry.
C1_OneRouterPerRelevantEntry ==
    routers # None =>
        LET rs == Val(routers)
        IN /\ \A i \in 1..Len(rs) : Relevant(rs[i].router)
           /\ \A entry \in Range(urlpatterns) \cup {rs[i].router : i \in 1..Len(rs)} :
                Cardinality({i \in 1..Len(rs) : rs[i].router = entry})
                = Cardinality({k \in 1..Len(urlpatterns) :
                                  urlpatterns[k] = entry /\ Relevant(entry)})

C1_Witness ==
    /\ routers # None
    /\ Len(urlpatterns) = 3
    /\ Len(Val(routers)) = 1
    /\ AdminURLs \in Range(urlpatterns)
    /\ HealthURL \in Range(urlpatterns)

\* value with one leading '^' removed, value itself when it has none
WithoutOneCaret(value) ==
    IF value # <<>> /\ value[1] = "^"
    THEN [k \in 1..(Len(value) - 1) |-> value[k + 1]]
    ELSE value

\* C2: url_pattern is '^' followed by the resolver's regex pattern string and
\* the item's regex pattern string, each with at most one leading '^' removed.
C2_UrlPatternIsPrefixSuffix ==
    last.op = "url_pattern" =>
        LET p == PatternAt(last.args[1])
        IN last.ret = Some(<<"^">> \o WithoutOneCaret(p.router.router.pattern)
                                   \o WithoutOneCaret(p.item.pattern))

C2_Witness ==
    /\ last.op = "url_pattern"
    /\ urlpatterns[1].pattern = <<"^", "^", "a">>
    /\ urlpatterns[1].url_patterns[1].pattern = <<"a", "^">>
    /\ last.ret = Some(<<"^", "^", "a", "a", "^">>)

\* (i, j) comes before (k, l) in router order, then pattern order
Before(a, b) == a[1] < b[1] \/ (a[1] = b[1] /\ a[2] <= b[2])

\* C3: get_view_url_pattern(view_name) returns the first RouterURLPattern, in
\* router order then pattern order, whose view_name is the argument, and
\* raises ValueError when there is none.
C3_FirstMatchOrValueError ==
    last.op = "get_view_url_pattern" =>
        LET matches == {ij \in Patterns : view_name(PatternAt(ij)) = last.args[1]}
        IN IF matches = {}
           THEN last.raised = Some("ValueError") /\ last.ret = None
           ELSE /\ last.raised = None
                /\ last.ret # None
                /\ view_name(Val(last.ret)) = last.args[1]
                /\ \E first \in matches :
                    /\ \A other \in matches : Before(first, other)
                    /\ last.ret = Some(PatternAt(first))

C3_Witness ==
    /\ last.op = "get_view_url_pattern"
    /\ last.raised = None
    /\ \E ij \in Patterns :
        /\ ij[1] = 2
        /\ view_name(PatternAt(ij)) = last.args[1]
        /\ PatternAt(ij) # Val(last.ret)

\* C4: view_name is '<namespace>:<name>' when the resolver's namespace is not
\* empty, and '<name>' alone when the namespace is empty or None.
C4_ViewNameHasNamespace ==
    last.op = "view_name" =>
        LET p == PatternAt(last.args[1])
            namespace == p.router.router.namespace
        IN IF namespace = None \/ namespace = Some(<<>>)
           THEN last.ret = p.item.name
           ELSE last.ret = Some(Val(namespace) \o <<":">> \o Val(p.item.name))

C4_Witness ==
    /\ last.op = "view_name"
    /\ urlpatterns[1].namespace = Some(S_example)
    /\ last.ret = Some(<<"e","x","a","m","p","l","e",":","e","x","a","m","p","l","e","-","l","i","s","t">>)

\* a class based view: the callback carries cls and cls() is a views.View
IsViewItem(item) ==
    /\ item.kind = "URLPattern"
    /\ item.callback \in DOMAIN Classes
    /\ Classes[item.callback].isView

\* the views registered in resolvers nested inside the resolver
NestedViews(resolver) ==
    {item \in UNION {Range(child.url_patterns) : child \in
                        {c \in Range(resolver.url_patterns) : c.kind = "URLResolver"}} :
        IsViewItem(item)}

\* C5 as stated: every view registered in a resolver nested inside a relevant
\* top-level resolver is wrapped as a RouterURLPattern.
C5_NestedViewsAreWrapped ==
    routers # None =>
        \A k \in 1..Len(urlpatterns) :
            Relevant(urlpatterns[k]) =>
                \A item \in NestedViews(urlpatterns[k]) :
                    \E ij \in Patterns : PatternAt(ij).item = item

NestedViewNames ==
    {S_inner \o <<":">> \o S_inner_list, S_v1 \o <<":">> \o S_inner_list, S_inner_list}

\* C5: discovery looks one level into the relevant top-level resolvers.  Every
\* class based view registered directly in such a resolver is wrapped as a
\* RouterURLPattern and found by get_view_url_pattern; nothing else is wrapped,
\* and the name of a view in a nested resolver raises ValueError.
C5_DirectViewsAreWrapped ==
    routers # None =>
        LET rs == Val(routers)
        IN /\ \A ij \in Patterns :
                /\ PatternAt(ij).item \in Range(rs[ij[1]].router.url_patterns)
                /\ IsViewItem(PatternAt(ij).item)
           /\ \A i \in 1..Len(rs) :
                \A item \in Range(rs[i].router.url_patterns) :
                    IsViewItem(item) =>
                        \E j \in 1..Len(rs[i].url_patterns) : rs[i].url_patterns[j].item = item
           /\ last.op = "get_view_url_pattern" =>
                /\ (\E ij \in Patterns : view_name(PatternAt(ij)) = last.args[1])
                       => (last.raised = None /\ view_name(Val(last.ret)) = last.args[1])
                /\ last.args[1] \in NestedViewNames => last.raised = Some("ValueError")

C5_Witness ==
    /\ routers # None
    /\ \E i \in 1..Len(Val(routers)) : Val(routers)[i].router = ApiURLs
    /\ last.op = "get_view_url_pattern"
    /\ last.args[1] = S_inner \o <<":">> \o S_inner_list
    /\ last.raised = Some("ValueError")

\* C6: constructing APIRouters and its Routers never calls get_queryset or
\* get_serializer_class and never reads a queryset attribute; these are used
\* only by RouterURLPattern.queryset and get_serializer_for_url_pattern, and
\* every such access evaluates them again.
C6_LazyAndUncached ==
    [][ /\ (routers = None /\ routers' # None) =>
              /\ calls'["get_queryset"] = 0
              /\ calls'["get_serializer_class"] = 0
              /\ calls'["queryset"] = 0
        /\ (calls'["get_queryset"] # calls["get_queryset"]
               \/ calls'["queryset"] # calls["queryset"]) => last'.op = "queryset"
        /\ calls'["get_serializer_class"] # calls["get_serializer_class"]
               => last'.op = "get_serializer_for_url_pattern"
        /\ last'.op = "queryset" =>
              LET cls == Classes[PatternAt(last'.args[1]).item.callback]
              IN IF cls.get_queryset
                 THEN calls'["get_queryset"] = calls["get_queryset"] + 1
                 ELSE calls'["queryset"] > calls["queryset"]
        /\ last'.op = "get_serializer_for_url_pattern" =>
              LET cls == Classes[PatternAt(last'.args[1]).item.callback]
              IN cls.get_serializer_class
                     => calls'["get_serializer_class"] = calls["get_serializer_class"] + 1
      ]_vars

C6_Witness ==
    /\ routers # None
    /\ last.op = "queryset"
    /\ calls["get_queryset"] = 2
    /\ calls["get_serializer_class"] = 0

\* C7 as stated: RouterURLPattern.queryset returns the queryset used with the
\* view, or an empty list when the view defines neither get_queryset nor a
\* queryset attribute.
C7_QuerysetOrEmptyList ==
    last.op = "queryset" =>
        LET cls == Classes[PatternAt(last.args[1]).item.callback]
        IN /\ last.raised = None
           /\ (~cls.get_queryset /\ cls.queryset = None) => last.ret = Some(<<>>)
           /\ (cls.get_queryset \/ cls.queryset # None) => last.ret \notin {None, Some(<<>>)}

\* the outcome of the validator method name for the instance
Raises(self, name) == callback(self, name) # None

\* called is names[1..n]
IsPrefix(s, names) == Len(s) <= Len(names) /\ \A k \in 1..Len(s) : s[k] = names[k]

\* C8 as stated: validate() calls the validators named by get_validators()
\* in the listed order, each once; if one raises no later one is called and
\* the exception propagates; if all return, validate() returns attrs.
C8_AllReturnThenAttrs ==
    (frame.pc = "done" /\ frame.entry = "validate") =>
        LET self == Val(validator)
            names == get_validators(self)
            n == Len(called)
        IN /\ IsPrefix(called, names)
           /\ \A k \in 1..n : Raises(self, called[k]) =>
                 (k = n /\ last.raised = callback(self, called[k]))
           /\ (n = Len(names) /\ \A k \in 1..n : ~Raises(self, called[k]))
                 => (last.ret = Some(self.attrs) /\ last.raised = None)

\* C8: validate() raises ValidationError without calling anything when
\* get_validators() is empty.  Otherwise it calls the listed validators one at
\* a time in the listed order, each list entry once; if one raises, no later
\* one is called and its exception propagates; a listed name that is not a
\* callable attribute ends the loop with an exception before any later
\* validator is called; if all are called and return, validate() returns the
\* attrs given to the constructor.
C8_ValidateInOrder ==
    /\ [](frame.entry = "validate" =>
            LET self == Val(validator)
                names == get_validators(self)
                n == Len(called)
            IN /\ IsPrefix(called, names)
               /\ \A k \in 1..n : called[k] \in ValidatorClasses[self.cls].methods
               /\ \A k \in 1..n : Raises(self, called[k]) => (k = n /\ frame.pc = "done")
               /\ frame.pc = "done" =>
                    IF names = <<>>
                    THEN /\ last.ret = None
                         /\ last.raised
                            = Some(<<"ValidationError", "Validator defines no validators">>)
                    ELSE IF n > 0 /\ Raises(self, called[n])
                    THEN last.ret = None /\ last.raised = callback(self, called[n])
                    ELSE IF n = Len(names)
                    THEN last.ret = Some(self.attrs) /\ last.raised = None
                    ELSE /\ names[n + 1] \notin ValidatorClasses[self.cls].methods
                         /\ last.ret = None
                         /\ last.raised # None)
    /\ [][ /\ called' = called \/ \E name \in Range(frame.names) : called' = Append(called, name)
           /\ frame.pc = "done" => called' = called ]_vars

C8_Witness ==
    /\ frame.pc = "done" /\ frame.entry = "validate"
    /\ Val(validator).cls = "ExampleValidatior"
    /\ Val(validator).attrs.label = Some(<<>>)
    /\ called = <<N_validate_required_fields>>
    /\ last.raised = Some(<<"ValidationError", "No label specified">>)

\* C9: get_validators() returns the class variable validators unchanged when
\* it is set and not empty; otherwise the names of all callable attributes
\* that start with 'validate_', in ascending order, never 'validate' itself.
C9_GetValidators ==
    frame.entry = "validate" =>
        LET self == Val(validator)
            cls == ValidatorClasses[self.cls]
            names == frame.names
        IN IF cls.validators # None /\ Val(cls.validators) # <<>>
           THEN names = Val(cls.validators)
           ELSE /\ \A i, j \in 1..Len(names) : i < j => StrLt(names[i], names[j])
                /\ Range(names)
                   = {key \in dir(self) :
                         /\ Len(key) >= 9
                         /\ \A k \in 1..9 : key[k] = N_validate_[k]
                         /\ key \in Callables(self)}
                /\ N_validate \notin Range(names)

C9_Witness ==
    /\ frame.entry = "validate"
    /\ Val(validator).cls = "ExampleUUIDValidatior"
    /\ frame.names = <<N_validate_first, N_validate_then>>

\* what validate() does for the instance from position i of names: the
\* validators called and the outcome
RECURSIVE ValidateFrom(_, _, _)
ValidateFrom(self, names, i) ==
    IF i > Len(names) THEN [called |-> <<>>, ret |-> Some(self.attrs), raised |-> None]
    ELSE LET r == validate_next(self, names[i])
             rest == ValidateFrom(self, names, i + 1)
         IN IF r.raised # None THEN [called |-> r.called, ret |-> None, raised |-> r.raised]
            ELSE [rest EXCEPT !.called = r.called \o rest.called]

ValidateOutcome(self) ==
    IF get_validators(self) = <<>>
    THEN [called |-> <<>>, ret |-> None,
          raised |-> Some(<<"ValidationError", "Validator defines no validators">>)]
    ELSE ValidateFrom(self, get_validators(self), 1)

\* C10 as stated: validator() runs the same validators in the same order,
\* raises the same errors and yields the same result as validator.validate().
C10_CallIsValidate ==
    (frame.pc = "done" /\ frame.entry = "__call__") =>
        LET expected == ValidateOutcome(Val(validator))
        IN /\ called = expected.called
           /\ last.ret = expected.ret
           /\ last.raised = expected.raised

\* the calls of steps, in order
StepCalls == [i \in 1..Len(steps) |-> steps[i].call]

\* steps grows by one entry at a time and is never rewritten
StepsGrow ==
    \/ steps' = steps
    \/ Len(steps') = Len(steps) + 1 /\ SubSeq(steps', 1, Len(steps)) = steps

\* C11: validate_protected_api_listing logs the client out, GETs the listing
\* unauthenticated and requires expected_failure_code (401 by default), logs
\* in as the given user, GETs again and requires expected_success_code; the
\* second GET is never issued when the first status check fails, and the
\* result set is validated only when expected_success_code is 200.
C11_ProtectedListingOrder ==
    /\ [](test.op = "validate_protected_api_listing" =>
            LET failure == IF test.args.expected_failure_code = None THEN 401
                           ELSE Val(test.args.expected_failure_code)
                success == IF test.args.expected_success_code = None THEN 200
                           ELSE Val(test.args.expected_success_code)
                n == Len(steps)
            IN /\ IsPrefix(StepCalls, <<"logout", "get", "login", "get", "validate_result_set">>)
               /\ n >= 2 => ~steps[2].authenticated
               /\ (n >= 2 /\ steps[2].status # Some(failure)) =>
                     (n = 2 /\ test.pc = "done" /\ last.raised = Some("AssertionError"))
               /\ n >= 4 => (steps[4].authenticated <=> test.args.credentials_ok)
               /\ (n >= 4 /\ steps[4].status # Some(success)) =>
                     (n = 4 /\ test.pc = "done" /\ last.raised = Some("AssertionError"))
               /\ n >= 5 => success = 200
               /\ (test.pc = "done" /\ last.raised = None) =>
                     /\ n >= 4
                     /\ (n = 5 <=> success = 200)
                     /\ last.ret # None)
    /\ [][StepsGrow]_vars

C11_Witness ==
    /\ test.op = "validate_protected_api_listing"
    /\ test.pc = "done"
    /\ last.raised = None
    /\ test.args.expected_failure_code = None
    /\ Len(steps) = 5
    /\ steps[2].status = Some(401)
    /\ steps[4].authenticated

\* the record decoded from the answer to the authenticated POST
Decoded == Val(loads(Val(test.res).content).ret)

\* value with a leading 'http://testserver' removed when it is a str
WithoutTestserver(value) ==
    IF value[1] = "str" /\ Len(value[2]) >= 17
       /\ \A k \in 1..17 : value[2][k] = P_testserver[k]
    THEN <<"str", [k \in 1..(Len(value[2]) - 17) |-> value[2][k + 17]]>>
    ELSE value

\* the record holds a value equal to the submitted one, 'true' and 'false'
\* standing for True and False
Matches(submitted, held) ==
    IF submitted = <<"str", V_true>> THEN PyEq(held, <<"bool", TRUE>>)
    ELSE IF submitted = <<"str", V_false>> THEN PyEq(held, <<"bool", FALSE>>)
    ELSE PyEq(held, submitted)

\* C12 as stated: create_record returns the decoded response record only if,
\* for every key of the submitted data, the record contains that key with an
\* equal value ('true' and 'false' matching True and False).
C12_ReturnsOnlyEqualRecord ==
    (test.op = "create_record" /\ test.pc = "done" /\ last.raised = None) =>
        /\ Len(steps) = 5
        /\ steps[2].status = Some(401) /\ steps[4].status = Some(201)
        /\ \A i \in 1..Len(test.args.data) :
            /\ test.args.data[i][1] \in DOMAIN Decoded
            /\ Matches(test.args.data[i][2], Decoded[test.args.data[i][1]])

\* C12: create_record POSTs the data with a logged-out client and requires
\* 401, then logs in, POSTs the same data and requires 201.  It returns the
\* record only if, for every key of the submitted data, the decoded record
\* contains that key with a value that equals the submitted one once a
\* leading 'http://testserver' is removed from a string of the record ('true'
\* and 'false' matching values equal to True and False); the record returned
\* is the decoded one with that prefix removed from the values of those keys.
C12_CreateRecord ==
    /\ [](test.op = "create_record" =>
            LET data == test.args.data
                n == Len(steps)
            IN /\ IsPrefix(StepCalls,
                           <<"logout", "post", "login", "post", "compare_record_to_data">>)
               /\ n >= 2 => (~steps[2].authenticated /\ steps[2].data = Some(data))
               /\ (n >= 2 /\ steps[2].status # Some(401)) =>
                     (n = 2 /\ test.pc = "done" /\ last.raised = Some("AssertionError"))
               /\ n >= 4 => /\ steps[4].data = Some(data)
                            /\ steps[4].authenticated <=> test.args.credentials_ok
               /\ (n >= 4 /\ steps[4].status # Some(201)) =>
                     (n = 4 /\ test.pc = "done" /\ last.raised = Some("AssertionError"))
               /\ (test.pc = "done" /\ last.raised = None) =>
                     /\ n = 5
                     /\ \A i \in 1..Len(data) :
                         /\ data[i][1] \in DOMAIN Decoded
                         /\ Matches(data[i][2], WithoutTestserver(Decoded[data[i][1]]))
                     /\ last.ret
                        = Some([key \in DOMAIN Decoded |->
                                  IF \E i \in 1..Len(data) : data[i][1] = key
                                  THEN WithoutTestserver(Decoded[key])
                                  ELSE Decoded[key]]))
    /\ [][StepsGrow]_vars

C12_Witness ==
    /\ test.op = "create_record" /\ test.pc = "done" /\ last.raised = None
    /\ test.args.data = << <<"active", <<"str", V_true>> >>, <<"url", <<"str", V_link>> >> >>
    /\ Decoded = [active |-> <<"bool", TRUE>>, url |-> <<"str", V_full_link>>]
    /\ last.ret = Some([active |-> <<"bool", TRUE>>, url |-> <<"str", V_link>>])

====
